---- MODULE Spec2Model ----
(***************************************************************************)
(* Model of src/src/calculator.rs: Calculator::new, Calculator::eval,      *)
(* Calculator::tokenizer (shunting-yard conversion to RPN) and             *)
(* Calculator::parse_number, driven once per instance as src/src/main.rs   *)
(* does.                                                                   *)
(*                                                                         *)
(* Characters are one-character strings.  Cursors are 0-based as in the    *)
(* source; At(chars, i) reads chars[i].  f32 values are modelled as exact  *)
(* rationals <<numerator, denominator>> in lowest terms with a positive    *)
(* denominator: rounding and overflow of f32 are not modelled, and -0.0 is *)
(* the same value as 0.0 (they compare equal in the source's b == 0.0).    *)
(***************************************************************************)
EXTENDS Integers, Sequences, FiniteSets, TLC

VARIABLES expr, tokens, pc, i, operations, result, k, ret

vars == <<expr, tokens, pc, i, operations, result, k, ret>>

(***************************************************************************)
(* Bounds and input alphabet                                               *)
(***************************************************************************)
MaxLen == 4

Digits == {"0", "1", "2"}

Operators == {"+", "-", "*", "/"}

Alphabet == Digits \cup Operators \cup {".", "(", ")", " ", "$"}

\* every string over Alphabet of at most n characters
Strings(n) == UNION {[1..m -> Alphabet] : m \in 0..n}

\* three-operand expressions, flat and with one parenthesised pair
LongExprs ==
    LET D == {<<d>> : d \in Digits}
        O == {<<o>> : o \in Operators}
    IN  UNION {{ a \o o1 \o b \o o2 \o c,
                 <<"(">> \o a \o o1 \o b \o <<")">> \o o2 \o c,
                 a \o o1 \o <<"(">> \o b \o o2 \o c \o <<")">> }
               : <<a, o1, b, o2, c>> \in D \X O \X D \X O \X D}

\* the expressions quoted in the specification's examples
Examples ==
    { <<"2", "+", "3", "*", "4">>,
      <<"(", "2", "+", "3", ")", "*", "4">>,
      <<"1", "0", "/", "2", "/", "5">>,
      <<"8", "-", "3", "-", "2">>,
      <<"3", ".", "5", ".", "2">>,
      <<"5", "/", "0">>,
      <<"(", "1", "+", "2">>,
      <<"1", "+", "2", ")">>,
      <<"1", "+">>,
      <<"*", "2">>,
      <<"-", "(", "3", ")">>,
      <<"1", " ", "$", " ", "2">>,
      <<"5", "/", "0", " ", "$">>,
      <<"1", "/", "0", "+", "(">>,
      <<"5", " ", "-", "3">>,
      <<"5", " ", "-", " ", "3">>,
      <<"5", "-", "3">>,
      <<"2", " ", "3", " ", "+", "*", " ", "4">>,
      <<"1", " ", "2">>,
      <<"2", "(", "3", ")">>,
      <<"(", ")">> }

Inputs == Strings(MaxLen) \cup LongExprs \cup Examples

(***************************************************************************)
(* f32 values as rationals                                                 *)
(***************************************************************************)
Abs(n) == IF n < 0 THEN -n ELSE n

RECURSIVE GCD(_, _)
GCD(a, b) == IF b = 0 THEN a ELSE GCD(b, a % b)

\* n/d in lowest terms with a positive denominator (d # 0)
Rat(n, d) ==
    LET g == GCD(Abs(n), Abs(d))
        s == IF d < 0 THEN -1 ELSE 1
    IN  <<(s * n) \div g, (s * d) \div g>>

Zero == <<0, 1>>

f32_add(a, b) == Rat(a[1] * b[2] + b[1] * a[2], a[2] * b[2])

f32_sub(a, b) == Rat(a[1] * b[2] - b[1] * a[2], a[2] * b[2])

f32_mul(a, b) == Rat(a[1] * b[1], a[2] * b[2])

\* only used with b # Zero
f32_div(a, b) == Rat(a[1] * b[2], a[2] * b[1])

(***************************************************************************)
(* RPNToken, CalculatorError, Result                                       *)
(***************************************************************************)
Number(n) == [type |-> "Number", op |-> "", val |-> n]

Operation(c) == [type |-> "Operation", op |-> c, val |-> Zero]

NoErr == "none"

CalculatorError ==
    {"UnsupportedToken", "MismatchedParantheses", "InvalidExpression",
     "InvalidDecimal", "ZeroDivision"}

Pending == [kind |-> "none", err |-> NoErr, val |-> Zero]

Ok(v) == [kind |-> "Ok", err |-> NoErr, val |-> v]

Err(e) == [kind |-> "Err", err |-> e, val |-> Zero]

(***************************************************************************)
(* Character classes                                                       *)
(***************************************************************************)
At(chars, j) == chars[j + 1]

is_ascii_digit(c) == c \in {"0", "1", "2", "3", "4", "5", "6", "7", "8", "9"}

is_whitespace(c) == c \in {" ", "\t", "\n", "\r"}

DigitVal(c) ==
    CASE c = "0" -> 0 [] c = "1" -> 1 [] c = "2" -> 2 [] c = "3" -> 3
      [] c = "4" -> 4 [] c = "5" -> 5 [] c = "6" -> 6 [] c = "7" -> 7
      [] c = "8" -> 8 [] c = "9" -> 9

RECURSIVE Pow10(_)
Pow10(n) == IF n = 0 THEN 1 ELSE 10 * Pow10(n - 1)

RECURSIVE DigitsToInt(_)
DigitsToInt(s) ==
    IF s = <<>> THEN 0
    ELSE 10 * DigitsToInt(SubSeq(s, 1, Len(s) - 1)) + DigitVal(s[Len(s)])

(***************************************************************************)
(* str::parse::<f32> on a string made of an optional leading '-', ASCII    *)
(* digits and '.': it fails when there is no digit, and otherwise reads    *)
(* the decimal numeral ("1." is 1, ".5" is 1/2).                           *)
(***************************************************************************)
parse_f32(num_str) ==
    LET neg    == num_str # <<>> /\ num_str[1] = "-"
        body   == IF neg THEN Tail(num_str) ELSE num_str
        digs   == SelectSeq(body, is_ascii_digit)
        dots   == {p \in 1..Len(body) : body[p] = "."}
        frac   == IF dots = {} THEN 0
                  ELSE Len(body) - (CHOOSE p \in dots : \A q \in dots : p <= q)
        mag    == DigitsToInt(digs)
    IN  IF Len(digs) = 0 \/ Cardinality(dots) > 1
        THEN [ok |-> FALSE, val |-> Zero]
        ELSE [ok |-> TRUE,
              val |-> Rat(IF neg THEN -mag ELSE mag, Pow10(frac))]

(***************************************************************************)
(* Calculator::parse_number                                                *)
(***************************************************************************)
\* parse_number_loop without the dotted check: every '.' is accumulated
RECURSIVE parse_number_loop_NoDotCheck(_, _, _, _)
parse_number_loop_NoDotCheck(chars, j, num_str, dotted) ==
    IF j < Len(chars) /\ (is_ascii_digit(At(chars, j)) \/ At(chars, j) = ".")
    THEN parse_number_loop_NoDotCheck(chars, j + 1,
                                      Append(num_str, At(chars, j)), dotted)
    ELSE [err |-> NoErr, i |-> j, num_str |-> num_str]

RECURSIVE parse_number_loop(_, _, _, _)
parse_number_loop(chars, j, num_str, dotted) ==
    IF j < Len(chars) /\ (is_ascii_digit(At(chars, j)) \/ At(chars, j) = ".")
    THEN IF At(chars, j) = "." /\ dotted
         THEN [err |-> "InvalidDecimal", i |-> j, num_str |-> num_str]
         ELSE parse_number_loop(chars, j + 1, Append(num_str, At(chars, j)),
                                dotted \/ At(chars, j) = ".")
    ELSE [err |-> NoErr, i |-> j, num_str |-> num_str]

parse_number(chars, j, is_negative) ==
    LET r == parse_number_loop(chars, j,
                               IF is_negative THEN <<"-">> ELSE <<>>, FALSE)
        p == parse_f32(r.num_str)
    IN  IF r.err # NoErr THEN [err |-> r.err, i |-> r.i, val |-> Zero]
        ELSE IF ~p.ok THEN [err |-> "InvalidExpression", i |-> r.i, val |-> Zero]
        ELSE [err |-> NoErr, i |-> r.i, val |-> p.val]

(***************************************************************************)
(* Calculator::tokenizer: one iteration of the scan loop                   *)
(***************************************************************************)
precedence(op) ==
    IF op \in {"+", "-"} THEN 1
    ELSE IF op \in {"*", "/"} THEN 2
    ELSE 0

Last(s) == s[Len(s)]

Front(s) == SubSeq(s, 1, Len(s) - 1)

\* pop_higher that ignores precedence: every operator above a '(' is popped
RECURSIVE pop_higher_Always(_, _, _)
pop_higher_Always(ops, toks, c) ==
    IF ops # <<>> /\ Last(ops) # "("
    THEN pop_higher_Always(Front(ops), Append(toks, Operation(Last(ops))), c)
    ELSE [operations |-> ops, tokens |-> toks]

\* pop_higher whose loop breaks at once: nothing is popped
pop_higher_Never(ops, toks, c) == [operations |-> ops, tokens |-> toks]

\* pop_higher that pops only the operators of strictly higher precedence
RECURSIVE pop_higher_Strict(_, _, _)
pop_higher_Strict(ops, toks, c) ==
    IF ops # <<>> /\ precedence(Last(ops)) > precedence(c)
    THEN pop_higher_Strict(Front(ops), Append(toks, Operation(Last(ops))), c)
    ELSE [operations |-> ops, tokens |-> toks]

\* while let Some(&top) = operations.last() { if precedence(top) >= precedence(c) ... }
RECURSIVE pop_higher(_, _, _)
pop_higher(ops, toks, c) ==
    IF ops # <<>> /\ precedence(Last(ops)) >= precedence(c)
    THEN pop_higher(Front(ops), Append(toks, Operation(Last(ops))), c)
    ELSE [operations |-> ops, tokens |-> toks]

\* pop_to_paren that emits the '(' it stops at
RECURSIVE pop_to_paren_EmitMarker(_, _)
pop_to_paren_EmitMarker(ops, toks) ==
    IF ops = <<>> THEN [operations |-> ops, tokens |-> toks]
    ELSE IF Last(ops) = "("
    THEN [operations |-> Front(ops), tokens |-> Append(toks, Operation("("))]
    ELSE pop_to_paren_EmitMarker(Front(ops), Append(toks, Operation(Last(ops))))

\* while let Some(top) = operations.pop() { if top == '(' { break; } ... }
RECURSIVE pop_to_paren(_, _)
pop_to_paren(ops, toks) ==
    IF ops = <<>> THEN [operations |-> ops, tokens |-> toks]
    ELSE IF Last(ops) = "(" THEN [operations |-> Front(ops), tokens |-> toks]
    ELSE pop_to_paren(Front(ops), Append(toks, Operation(Last(ops))))

\* is_unary without the space among the preceding characters
is_unary_NoSpace(chars, j) ==
    j = 0 \/ At(chars, j - 1) \in {"(", "+", "-", "*", "/"}

is_unary(chars, j) ==
    j = 0 \/ At(chars, j - 1) \in {"(", "+", "-", "*", "/", " "}

\* the condition under which a '-' at j is read as the sign of a literal
unary_minus(chars, j) ==
    /\ At(chars, j) = "-"
    /\ is_unary(chars, j)
    /\ j + 1 < Len(chars)
    /\ is_ascii_digit(At(chars, j + 1))

\* scan_branch with an unknown character skipped like whitespace
scan_branch_SkipUnknown(chars, j) ==
    LET c == At(chars, j)
    IN  IF is_whitespace(c) THEN "whitespace"
        ELSE IF unary_minus(chars, j) THEN "unary"
        ELSE IF is_ascii_digit(c) \/ c = "." THEN "number"
        ELSE IF c \in {"+", "-", "*", "/"} THEN "operator"
        ELSE IF c = "(" THEN "open"
        ELSE IF c = ")" THEN "close"
        ELSE "whitespace"

\* which arm of the loop body handles the character at j
scan_branch(chars, j) ==
    LET c == At(chars, j)
    IN  IF is_whitespace(c) THEN "whitespace"
        ELSE IF unary_minus(chars, j) THEN "unary"
        ELSE IF is_ascii_digit(c) \/ c = "." THEN "number"
        ELSE IF c \in {"+", "-", "*", "/"} THEN "operator"
        ELSE IF c = "(" THEN "open"
        ELSE IF c = ")" THEN "close"
        ELSE "unsupported"

Scanned(e, j, toks, ops) ==
    [err |-> e, i |-> j, tokens |-> toks, operations |-> ops]

\* tokenizer_step whose whitespace arm continues without i += 1
tokenizer_step_NoAdvance(chars, j, toks, ops) ==
    LET c  == At(chars, j)
        br == scan_branch(chars, j)
    IN  CASE br = "whitespace" -> Scanned(NoErr, j, toks, ops)
          [] br = "unary" ->
                LET r == parse_number(chars, j + 1, TRUE)
                IN  IF r.err # NoErr THEN Scanned(r.err, r.i, toks, ops)
                    ELSE Scanned(NoErr, r.i, Append(toks, Number(r.val)), ops)
          [] br = "number" ->
                LET r == parse_number(chars, j, FALSE)
                IN  IF r.err # NoErr THEN Scanned(r.err, r.i, toks, ops)
                    ELSE Scanned(NoErr, r.i, Append(toks, Number(r.val)), ops)
          [] br = "operator" ->
                LET r == pop_higher(ops, toks, c)
                IN  Scanned(NoErr, j + 1, r.tokens, Append(r.operations, c))
          [] br = "open" -> Scanned(NoErr, j + 1, toks, Append(ops, c))
          [] br = "close" ->
                LET r == pop_to_paren(ops, toks)
                IN  Scanned(NoErr, j + 1, r.tokens, r.operations)
          [] br = "unsupported" -> Scanned("UnsupportedToken", j, toks, ops)

\* the loop body at cursor j (j < chars.len()): the cursor, token sequence and
\* operator stack after it, or the error it returns
tokenizer_step(chars, j, toks, ops) ==
    LET c  == At(chars, j)
        br == scan_branch(chars, j)
    IN  CASE br = "whitespace" -> Scanned(NoErr, j + 1, toks, ops)
          [] br = "unary" ->
                LET r == parse_number(chars, j + 1, TRUE)
                IN  IF r.err # NoErr THEN Scanned(r.err, r.i, toks, ops)
                    ELSE Scanned(NoErr, r.i, Append(toks, Number(r.val)), ops)
          [] br = "number" ->
                LET r == parse_number(chars, j, FALSE)
                IN  IF r.err # NoErr THEN Scanned(r.err, r.i, toks, ops)
                    ELSE Scanned(NoErr, r.i, Append(toks, Number(r.val)), ops)
          [] br = "operator" ->
                LET r == pop_higher(ops, toks, c)
                IN  Scanned(NoErr, j + 1, r.tokens, Append(r.operations, c))
          [] br = "open" -> Scanned(NoErr, j + 1, toks, Append(ops, c))
          [] br = "close" ->
                LET r == pop_to_paren(ops, toks)
                IN  Scanned(NoErr, j + 1, r.tokens, r.operations)
          [] br = "unsupported" -> Scanned("UnsupportedToken", j, toks, ops)

\* drain_step without the parenthesis check
drain_step_NoParenCheck(toks, ops) ==
    [err |-> NoErr, tokens |-> Append(toks, Operation(Last(ops))),
     operations |-> Front(ops)]

\* one iteration of the drain loop (operations non-empty)
drain_step(toks, ops) ==
    IF Last(ops) = "(" \/ Last(ops) = ")"
    THEN [err |-> "MismatchedParantheses", tokens |-> toks,
          operations |-> Front(ops)]
    ELSE [err |-> NoErr, tokens |-> Append(toks, Operation(Last(ops))),
          operations |-> Front(ops)]

(***************************************************************************)
(* Calculator::eval: one iteration of the token loop                       *)
(***************************************************************************)
\* apply_op without the b == 0.0 guard: a / 0 is a non-finite value
apply_op_NoZeroCheck(op, a, b) ==
    CASE op = "+" -> [err |-> NoErr, out |-> f32_add(a, b)]
      [] op = "-" -> [err |-> NoErr, out |-> f32_sub(a, b)]
      [] op = "*" -> [err |-> NoErr, out |-> f32_mul(a, b)]
      [] op = "/" -> IF b = Zero
                     THEN [err |-> NoErr, out |-> <<1, 0>>]
                     ELSE [err |-> NoErr, out |-> f32_div(a, b)]
      [] OTHER -> [err |-> "Panic", out |-> Zero]

\* the match on op; "Panic" is the unreachable!() arm
apply_op(op, a, b) ==
    CASE op = "+" -> [err |-> NoErr, out |-> f32_add(a, b)]
      [] op = "-" -> [err |-> NoErr, out |-> f32_sub(a, b)]
      [] op = "*" -> [err |-> NoErr, out |-> f32_mul(a, b)]
      [] op = "/" -> IF b = Zero
                     THEN [err |-> "ZeroDivision", out |-> Zero]
                     ELSE [err |-> NoErr, out |-> f32_div(a, b)]
      [] OTHER -> [err |-> "Panic", out |-> Zero]

\* eval_step without the result.len() < 2 check: the operator is skipped
eval_step_NoUnderflowCheck(token, res) ==
    IF token.type = "Operation"
    THEN IF Len(res) < 2
         THEN [err |-> NoErr, result |-> res]
         ELSE LET b == res[Len(res)]
                  a == res[Len(res) - 1]
                  r == apply_op(token.op, a, b)
              IN  IF r.err # NoErr
                  THEN [err |-> r.err, result |-> SubSeq(res, 1, Len(res) - 2)]
                  ELSE [err |-> NoErr,
                        result |-> Append(SubSeq(res, 1, Len(res) - 2), r.out)]
    ELSE [err |-> NoErr, result |-> Append(res, token.val)]

\* eval_step that pops both operands and forgets to push a op b
eval_step_NoPush(token, res) ==
    IF token.type = "Operation"
    THEN IF Len(res) < 2
         THEN [err |-> "InvalidExpression", result |-> res]
         ELSE LET b == res[Len(res)]
                  a == res[Len(res) - 1]
                  r == apply_op(token.op, a, b)
              IN  [err |-> r.err, result |-> SubSeq(res, 1, Len(res) - 2)]
    ELSE [err |-> NoErr, result |-> Append(res, token.val)]

eval_step(token, res) ==
    IF token.type = "Operation"
    THEN IF Len(res) < 2
         THEN [err |-> "InvalidExpression", result |-> res]
         ELSE LET b == res[Len(res)]
                  a == res[Len(res) - 1]
                  r == apply_op(token.op, a, b)
              IN  IF r.err # NoErr
                  THEN [err |-> r.err, result |-> SubSeq(res, 1, Len(res) - 2)]
                  ELSE [err |-> NoErr,
                        result |-> Append(SubSeq(res, 1, Len(res) - 2), r.out)]
    ELSE [err |-> NoErr, result |-> Append(res, token.val)]

\* eval_finish that rejects a value stack of more than one value
eval_finish_SingleValue(res) ==
    IF Len(res) = 1 THEN Ok(Last(res)) ELSE Err("InvalidExpression")

\* eval_finish that reads an empty value stack as the value 0
eval_finish_EmptyIsZero(res) ==
    IF res # <<>> THEN Ok(Last(res)) ELSE Ok(Zero)

\* the value returned once every token is consumed
eval_finish(res) ==
    IF res # <<>> THEN Ok(Last(res)) ELSE Err("InvalidExpression")

(***************************************************************************)
(* eval as a function of the expression string                             *)
(***************************************************************************)
RECURSIVE scan_loop(_, _, _, _)
scan_loop(chars, j, toks, ops) ==
    IF j < Len(chars)
    THEN LET r == tokenizer_step(chars, j, toks, ops)
         IN  IF r.err # NoErr THEN r
             ELSE scan_loop(chars, r.i, r.tokens, r.operations)
    ELSE Scanned(NoErr, j, toks, ops)

RECURSIVE drain_loop(_, _)
drain_loop(toks, ops) ==
    IF ops = <<>> THEN [err |-> NoErr, tokens |-> toks, operations |-> ops]
    ELSE LET r == drain_step(toks, ops)
         IN  IF r.err # NoErr THEN r ELSE drain_loop(r.tokens, r.operations)

\* Result<(), CalculatorError> of tokenizer, with the token sequence it leaves
tokenizer(chars) ==
    LET s == scan_loop(chars, 0, <<>>, <<>>)
    IN  IF s.err # NoErr
        THEN [err |-> s.err, tokens |-> s.tokens, operations |-> s.operations]
        ELSE drain_loop(s.tokens, s.operations)

RECURSIVE eval_loop(_, _, _)
eval_loop(toks, n, res) ==
    IF n < Len(toks)
    THEN LET r == eval_step(toks[n + 1], res)
         IN  IF r.err # NoErr THEN Err(r.err) ELSE eval_loop(toks, n + 1, r.result)
    ELSE eval_finish(res)

eval(chars) ==
    LET t == tokenizer(chars)
    IN  IF t.err # NoErr THEN Err(t.err) ELSE eval_loop(t.tokens, 0, <<>>)

(***************************************************************************)
(* State machine: Calculator::new, then one call of eval, step by step     *)
(***************************************************************************)
Init ==
    /\ expr \in Inputs
    /\ tokens = <<>>
    /\ pc = "new"
    /\ i = 0
    /\ operations = <<>>
    /\ result = <<>>
    /\ k = 0
    /\ ret = Pending

\* eval is entered: result is created, tokenizer clears tokens and starts at 0
EvalBegin ==
    /\ pc = "new"
    /\ pc' = "scan"
    /\ result' = <<>>
    /\ tokens' = <<>>
    /\ operations' = <<>>
    /\ i' = 0
    /\ k' = 0
    /\ UNCHANGED <<expr, ret>>

\* the scan loop is at a character handled by the arm br
ScanAt(br) ==
    /\ pc = "scan"
    /\ i < Len(expr)
    /\ scan_branch(expr, i) = br

\* one iteration of the scan loop; an error returns from tokenizer and eval
ScanBody ==
    /\ LET r == tokenizer_step(expr, i, tokens, operations)
       IN  /\ i' = r.i
           /\ tokens' = r.tokens
           /\ operations' = r.operations
           /\ IF r.err # NoErr
              THEN pc' = "done" /\ ret' = Err(r.err)
              ELSE pc' = "scan" /\ ret' = ret
    /\ UNCHANGED <<expr, result, k>>

ScanWhitespace ==
    /\ ScanAt("whitespace")
    /\ ScanBody

ScanUnaryMinus ==
    /\ ScanAt("unary")
    /\ ScanBody

ScanNumber ==
    /\ ScanAt("number")
    /\ ScanBody

ScanOperator ==
    /\ ScanAt("operator")
    /\ ScanBody

ScanOpenParen ==
    /\ ScanAt("open")
    /\ ScanBody

ScanCloseParen ==
    /\ ScanAt("close")
    /\ ScanBody

ScanUnsupported ==
    /\ ScanAt("unsupported")
    /\ ScanBody

\* the scan loop exits
ScanEnd ==
    /\ pc = "scan"
    /\ i >= Len(expr)
    /\ pc' = "drain"
    /\ UNCHANGED <<expr, tokens, i, operations, result, k, ret>>

\* one iteration of the drain loop that emits an operator
DrainEmit ==
    /\ pc = "drain"
    /\ operations # <<>>
    /\ drain_step(tokens, operations).err = NoErr
    /\ tokens' = drain_step(tokens, operations).tokens
    /\ operations' = drain_step(tokens, operations).operations
    /\ UNCHANGED <<expr, pc, i, result, k, ret>>

\* DrainParen with the error of tokenizer dropped by eval
DrainParen_ErrorIgnored ==
    /\ pc = "drain"
    /\ operations # <<>>
    /\ drain_step(tokens, operations).err # NoErr
    /\ operations' = <<>>
    /\ pc' = "eval"
    /\ UNCHANGED <<expr, tokens, i, result, k, ret>>

\* the drain loop pops a parenthesis: tokenizer and eval return the error
DrainParen ==
    /\ pc = "drain"
    /\ operations # <<>>
    /\ drain_step(tokens, operations).err # NoErr
    /\ operations' = drain_step(tokens, operations).operations
    /\ pc' = "done"
    /\ ret' = Err(drain_step(tokens, operations).err)
    /\ UNCHANGED <<expr, tokens, i, result, k>>

\* tokenizer returns Ok(()): eval starts the token loop
DrainEnd ==
    /\ pc = "drain"
    /\ operations = <<>>
    /\ pc' = "eval"
    /\ UNCHANGED <<expr, tokens, i, operations, result, k, ret>>

\* the token loop is at a token of type ty whose step ends in one of errs
EvalAt(ty, errs) ==
    /\ pc = "eval"
    /\ k < Len(tokens)
    /\ tokens[k + 1].type = ty
    /\ eval_step(tokens[k + 1], result).err \in errs

\* one iteration of the token loop; an error returns from eval
EvalBody ==
    /\ LET r == eval_step(tokens[k + 1], result)
       IN  /\ result' = r.result
           /\ IF r.err # NoErr
              THEN pc' = "done" /\ ret' = Err(r.err) /\ k' = k
              ELSE pc' = "eval" /\ ret' = ret /\ k' = k + 1
    /\ UNCHANGED <<expr, tokens, i, operations>>

EvalNumber ==
    /\ EvalAt("Number", {NoErr})
    /\ EvalBody

EvalApply ==
    /\ EvalAt("Operation", {NoErr, "Panic"})
    /\ EvalBody

EvalUnderflow ==
    /\ EvalAt("Operation", {"InvalidExpression"})
    /\ EvalBody

EvalZeroDivision ==
    /\ EvalAt("Operation", {"ZeroDivision"})
    /\ EvalBody

\* every token is consumed: eval returns the top of the value stack
EvalFinish ==
    /\ pc = "eval"
    /\ k >= Len(tokens)
    /\ pc' = "done"
    /\ ret' = eval_finish(result)
    /\ result' = IF result # <<>> THEN Front(result) ELSE result
    /\ UNCHANGED <<expr, tokens, i, operations, k>>

Next ==
    \/ EvalBegin
    \/ ScanWhitespace
    \/ ScanUnaryMinus
    \/ ScanNumber
    \/ ScanOperator
    \/ ScanOpenParen
    \/ ScanCloseParen
    \/ ScanUnsupported
    \/ ScanEnd
    \/ DrainEmit
    \/ DrainParen
    \/ DrainEnd
    \/ EvalNumber
    \/ EvalApply
    \/ EvalUnderflow
    \/ EvalZeroDivision
    \/ EvalFinish

Spec == Init /\ [][Next]_vars

Done == pc = "done"

(***************************************************************************)
(* eval called again on the same instance: the caller keeps the outcome of *)
(* the call before in ret while the new call runs                          *)
(***************************************************************************)
\* EvalAgain without self.tokens.clear()
EvalAgain_NoClear ==
    /\ pc = "done"
    /\ pc' = "scan"
    /\ result' = <<>>
    /\ operations' = <<>>
    /\ i' = 0
    /\ k' = 0
    /\ UNCHANGED <<expr, tokens, ret>>

\* eval is entered again: a new result, tokens cleared, a new operations, i = 0
EvalAgain ==
    /\ pc = "done"
    /\ pc' = "scan"
    /\ result' = <<>>
    /\ tokens' = <<>>
    /\ operations' = <<>>
    /\ i' = 0
    /\ k' = 0
    /\ UNCHANGED <<expr, ret>>

NextRepeat ==
    \/ Next
    \/ EvalAgain

SpecRepeat == Init /\ [][NextRepeat]_vars

\* main: the expression argument is not read yet
Start ==
    /\ expr = <<>>
    /\ tokens = <<>>
    /\ pc = "start"
    /\ i = 0
    /\ operations = <<>>
    /\ result = <<>>
    /\ k = 0
    /\ ret = Pending

MaxFairLen == 2

\* the expressions of the fair specification
FairInputs == Strings(MaxFairLen) \cup Examples

\* Calculator::new(args[1].to_string())
New ==
    /\ pc = "start"
    /\ expr' \in FairInputs
    /\ pc' = "new"
    /\ UNCHANGED <<tokens, i, operations, result, k, ret>>

NextMain ==
    \/ New
    \/ Next

\* main runs Calculator::new and one call of eval; every enabled step is
\* eventually taken: the program is straight-line synchronous code
FairSpec == Start /\ [][NextMain]_vars /\ WF_vars(NextMain)

(***************************************************************************)
(* Properties of the expression string, stated on the text alone           *)
(* (positions are 1-based)                                                 *)
(***************************************************************************)
NumeralChar(c) == c \in {"0", "1", "2", "3", "4", "5", "6", "7", "8", "9", "."}

SupportedChar(c) ==
    NumeralChar(c) \/ c \in {"+", "-", "*", "/", "(", ")", " ", "\t", "\n", "\r"}

Count(chars, c, lo, hi) == Cardinality({p \in lo..hi : chars[p] = c})

\* a maximal run of digits and '.' starts at p
RunStart(chars, p) ==
    /\ p \in 1..Len(chars)
    /\ NumeralChar(chars[p])
    /\ p = 1 \/ ~NumeralChar(chars[p - 1])

\* last position of the run of digits and '.' that contains p
RunEnd(chars, p) ==
    CHOOSE q \in p..Len(chars) :
        /\ \A r \in p..q : NumeralChar(chars[r])
        /\ q = Len(chars) \/ ~NumeralChar(chars[q + 1])

\* the run p..q is no numeral: two dots, or no digit
BadRun(chars, p, q) ==
    \/ Count(chars, ".", p, q) >= 2
    \/ \A r \in p..q : chars[r] = "."

\* value of the numeral p..q (at most one '.', at least one digit)
RunValue(chars, p, q) ==
    LET digs == SelectSeq(SubSeq(chars, p, q), LAMBDA c : c # ".")
        frac == IF Count(chars, ".", p, q) = 0 THEN 0
                ELSE q - (CHOOSE r \in p..q : chars[r] = ".")
    IN  Rat(DigitsToInt(digs), Pow10(frac))

\* every character is supported and every run of digits and '.' is a numeral
LexicallyClean(chars) ==
    /\ \A p \in 1..Len(chars) : SupportedChar(chars[p])
    /\ \A p \in 1..Len(chars) :
          RunStart(chars, p) => ~BadRun(chars, p, RunEnd(chars, p))

\* some ')' has no matching earlier '('
UnmatchedClose(chars) ==
    \E p \in 1..Len(chars) :
        /\ chars[p] = ")"
        /\ Count(chars, "(", 1, p - 1) < Count(chars, ")", 1, p)

\* some '(' has no matching later ')'
UnclosedOpen(chars) ==
    \E p \in 1..Len(chars) :
        /\ chars[p] = "("
        /\ Count(chars, "(", p, Len(chars)) > Count(chars, ")", p, Len(chars))

\* the scan and the drain succeed on chars
ConversionOk(chars) == LexicallyClean(chars) /\ ~UnclosedOpen(chars)

(***************************************************************************)
(* C1: an expression with a ')' that has no matching earlier '(' never     *)
(* evaluates to a number: once the scan reaches that ')' (no character     *)
(* before it is unsupported and no numeral is malformed), eval returns     *)
(* MismatchedParantheses.                                                  *)
(***************************************************************************)
C1_UnmatchedCloseRejected ==
    (Done /\ UnmatchedClose(expr) /\ LexicallyClean(expr))
        => ret = Err("MismatchedParantheses")

(***************************************************************************)
(* C2: whitespace invariance.  Removing the spaces of an expression in     *)
(* which no space lies inside a literal (between two characters of a       *)
(* numeral, or between a sign '-' and its digits) leaves the outcome of    *)
(* eval unchanged.  Stated for expressions without an unmatched ')'.       *)
(***************************************************************************)
RemoveSpaces(chars) == SelectSeq(chars, LAMBDA c : c # " ")

\* p and q are the non-space characters around a run of spaces
AroundSpaces(chars, p, q) ==
    /\ p \in 1..Len(chars)
    /\ q \in 1..Len(chars)
    /\ p + 1 < q
    /\ chars[p] # " "
    /\ chars[q] # " "
    /\ \A r \in (p + 1)..(q - 1) : chars[r] = " "

\* the '-' at p stands where a sign can stand: nothing but spaces before it,
\* or the nearest non-space character before it is one of ( + - * /
SignPosition(chars, p) ==
    /\ chars[p] = "-"
    /\ \/ \A r \in 1..(p - 1) : chars[r] = " "
       \/ \E r \in 1..(p - 1) :
             /\ chars[r] \in {"(", "+", "-", "*", "/"}
             /\ \A t \in (r + 1)..(p - 1) : chars[t] = " "

SpaceInsideLiteral(chars) ==
    \E p, q \in 1..Len(chars) :
        /\ AroundSpaces(chars, p, q)
        /\ \/ NumeralChar(chars[p]) /\ NumeralChar(chars[q])
           \/ SignPosition(chars, p) /\ is_ascii_digit(chars[q])

C2_WhitespaceInvariance ==
    (Done /\ ~SpaceInsideLiteral(expr) /\ ~UnmatchedClose(expr))
        => ret = eval(RemoveSpaces(expr))

(***************************************************************************)
(* Reference infix evaluator (recursive descent) for the grammar           *)
(*   expr ::= term (('+' | '-') term)*     term ::= atom ('*' atom)*       *)
(*   atom ::= numeral | '(' expr ')'                                       *)
(* with spaces allowed between tokens; numerals are non-negative.          *)
(***************************************************************************)
RefFail == [ok |-> FALSE, val |-> Zero, pos |-> 0]

RefOk(v, p) == [ok |-> TRUE, val |-> v, pos |-> p]

\* first position at or after p that holds no space (Len + 1 when none)
SkipSpaces(chars, p) ==
    CHOOSE q \in p..(Len(chars) + 1) :
        /\ \A r \in p..(q - 1) : chars[r] = " "
        /\ q = Len(chars) + 1 \/ chars[q] # " "

RECURSIVE RefExpr(_, _)
RECURSIVE RefExprRest(_, _, _)
RECURSIVE RefTerm(_, _)
RECURSIVE RefTermRest(_, _, _)
RECURSIVE RefAtom(_, _)

RefAtom(chars, p) ==
    LET q == SkipSpaces(chars, p)
    IN  IF q > Len(chars) THEN RefFail
        ELSE IF NumeralChar(chars[q])
        THEN IF BadRun(chars, q, RunEnd(chars, q)) THEN RefFail
             ELSE RefOk(RunValue(chars, q, RunEnd(chars, q)), RunEnd(chars, q) + 1)
        ELSE IF chars[q] = "("
        THEN LET e == RefExpr(chars, q + 1)
                 c == SkipSpaces(chars, e.pos)
             IN  IF e.ok /\ c <= Len(chars) /\ chars[c] = ")"
                 THEN RefOk(e.val, c + 1)
                 ELSE RefFail
        ELSE RefFail

RefTermRest(chars, acc, p) ==
    LET q == SkipSpaces(chars, p)
    IN  IF q <= Len(chars) /\ chars[q] = "*"
        THEN LET a == RefAtom(chars, q + 1)
             IN  IF a.ok THEN RefTermRest(chars, f32_mul(acc, a.val), a.pos)
                 ELSE RefFail
        ELSE RefOk(acc, p)

RefTerm(chars, p) ==
    LET a == RefAtom(chars, p)
    IN  IF a.ok THEN RefTermRest(chars, a.val, a.pos) ELSE RefFail

RefExprRest(chars, acc, p) ==
    LET q == SkipSpaces(chars, p)
    IN  IF q <= Len(chars) /\ chars[q] \in {"+", "-"}
        THEN LET t == RefTerm(chars, q + 1)
             IN  IF ~t.ok THEN RefFail
                 ELSE IF chars[q] = "+"
                 THEN RefExprRest(chars, f32_add(acc, t.val), t.pos)
                 ELSE RefExprRest(chars, f32_sub(acc, t.val), t.pos)
        ELSE RefOk(acc, p)

RefExpr(chars, p) ==
    LET t == RefTerm(chars, p)
    IN  IF t.ok THEN RefExprRest(chars, t.val, t.pos) ELSE RefFail

\* ok exactly when the whole of chars is one expression of the grammar
RefEval(chars) ==
    LET e == RefExpr(chars, 1)
    IN  IF e.ok /\ SkipSpaces(chars, e.pos) > Len(chars) THEN e ELSE RefFail

(***************************************************************************)
(* C3: on every valid infix expression over non-negative literals, + - *,  *)
(* parentheses and spaces, eval returns Ok with the reference value.       *)
(***************************************************************************)
C3_MatchesReference ==
    (Done /\ RefEval(expr).ok) => ret = Ok(RefEval(expr).val)

(***************************************************************************)
(* C4: when the scan ends with a '(' still on the operator stack, eval     *)
(* returns MismatchedParantheses and no token is evaluated; when no '(' is *)
(* left, the token sequence is the scan's output followed by the remaining *)
(* operators in LIFO order.                                                *)
(***************************************************************************)
\* the operators of ops as tokens, top of the stack first
LIFO(ops) == [n \in 1..Len(ops) |-> Operation(ops[Len(ops) + 1 - n])]

InStack(c, ops) == \E n \in 1..Len(ops) : ops[n] = c

C4_DrainAfterScan ==
    LET s == scan_loop(expr, 0, <<>>, <<>>)
    IN  (pc \in {"eval", "done"} /\ s.err = NoErr) =>
            IF InStack("(", s.operations)
            THEN /\ pc = "done"
                 /\ ret = Err("MismatchedParantheses")
                 /\ result = <<>>
                 /\ k = 0
            ELSE tokens = s.tokens \o LIFO(s.operations)

\* "(1+2"-like: operators were drained before the '(' was met
C4_Witness ==
    /\ Done
    /\ ret = Err("MismatchedParantheses")
    /\ Len(tokens) >= 3
    /\ tokens[Len(tokens)].type = "Operation"

(***************************************************************************)
(* C5: when the evaluator is at a '/' token with at least two values on    *)
(* the stack and the top value (the divisor b) is zero, the step returns   *)
(* ZeroDivision from eval; no value is computed from that division.        *)
(***************************************************************************)
C5_ZeroDivisionReported ==
    [][ ( /\ pc = "eval"
          /\ k < Len(tokens)
          /\ tokens[k + 1] = Operation("/")
          /\ Len(result) >= 2
          /\ result[Len(result)] = Zero )
        => ( /\ pc' = "done"
             /\ ret' = Err("ZeroDivision")
             /\ Len(result') < Len(result) ) ]_vars

\* the divisor was computed by the operator just before the '/'
C5_Witness ==
    /\ Done
    /\ ret = Err("ZeroDivision")
    /\ k >= 1
    /\ tokens[k].type = "Operation"

(***************************************************************************)
(* C6: a '-' under the scan cursor i is consumed as the sign of the        *)
(* following literal (one negative Number token, no Operation token, the   *)
(* operator stack untouched) exactly when (i = 0 or the character before   *)
(* it is one of ( + - * / or a space) and the character at i + 1 is an     *)
(* ASCII digit; otherwise it is pushed as the binary operator and the step *)
(* emits only Operation tokens.                                            *)
(***************************************************************************)
SignCond(chars, j) ==
    /\ At(chars, j) = "-"
    /\ j = 0 \/ chars[j] \in {"(", "+", "-", "*", "/", " "}
    /\ j + 2 <= Len(chars)
    /\ chars[j + 2] \in {"0", "1", "2", "3", "4", "5", "6", "7", "8", "9"}

RatNeg(v) == <<-v[1], v[2]>>

C6_Step ==
    (pc = "scan" /\ i < Len(expr) /\ At(expr, i) = "-") =>
        IF SignCond(expr, i)
        THEN \/ pc' = "done" /\ ret' = Err("InvalidDecimal")
             \/ /\ pc' = "scan"
                /\ operations' = operations
                /\ Len(tokens') = Len(tokens) + 1
                /\ SubSeq(tokens', 1, Len(tokens)) = tokens
                /\ tokens'[Len(tokens')].type = "Number"
                /\ tokens'[Len(tokens')].val[1] <= 0
                /\ tokens'[Len(tokens')].val =
                       RatNeg(RunValue(expr, i + 2, RunEnd(expr, i + 2)))
                /\ i' = RunEnd(expr, i + 2)
        ELSE /\ pc' = "scan"
             /\ i' = i + 1
             /\ operations' # <<>>
             /\ operations'[Len(operations')] = "-"
             /\ Len(tokens') - Len(tokens) = Len(operations) + 1 - Len(operations')
             /\ SubSeq(tokens', 1, Len(tokens)) = tokens
             /\ \A n \in (Len(tokens) + 1)..Len(tokens') :
                    tokens'[n].type = "Operation"

C6_UnaryMinusRule == [][C6_Step]_vars

\* "1 -2"-like and "1--2"-like: a sign read after a space, and a binary '-'
C6_Witness ==
    /\ pc = "scan"
    /\ i >= 3
    /\ At(expr, i - 2) = "-"
    /\ At(expr, i - 3) \in {" ", "-"}
    /\ tokens # <<>>
    /\ tokens[Len(tokens)].val[1] < 0
    /\ (At(expr, i - 3) = "-" => operations = <<"-">>)

(***************************************************************************)
(* C7: no value-stack operation happens before the scan and the drain have *)
(* both succeeded, and when conversion fails eval returns the first        *)
(* conversion error in scan order whatever the tokens would evaluate to.   *)
(***************************************************************************)
\* the error the character at p raises in the scan, if any
LexErrorAt(chars, p) ==
    IF ~SupportedChar(chars[p]) THEN "UnsupportedToken"
    ELSE IF RunStart(chars, p) /\ BadRun(chars, p, RunEnd(chars, p))
    THEN IF Count(chars, ".", p, RunEnd(chars, p)) >= 2
         THEN "InvalidDecimal" ELSE "InvalidExpression"
    ELSE NoErr

FirstLexError(chars) ==
    LET P == {p \in 1..Len(chars) : LexErrorAt(chars, p) # NoErr}
    IN  IF P = {} THEN NoErr
        ELSE LexErrorAt(chars, CHOOSE p \in P : \A q \in P : p <= q)

C7_ConversionFirst ==
    /\ pc \in {"new", "scan", "drain"} => (result = <<>> /\ k = 0)
    /\ pc = "eval" => (i >= Len(expr) /\ operations = <<>>)
    /\ (Done /\ FirstLexError(expr) # NoErr) =>
           (ret = Err(FirstLexError(expr)) /\ result = <<>> /\ k = 0)
    /\ (Done /\ FirstLexError(expr) = NoErr /\ UnclosedOpen(expr)) =>
           (ret = Err("MismatchedParantheses") /\ result = <<>> /\ k = 0)
    /\ (Done /\ expr = <<"5", "/", "0", " ", "$">>) => ret = Err("UnsupportedToken")
    /\ (Done /\ expr = <<"1", "/", "0", "+", "(">>) =>
           ret = Err("MismatchedParantheses")

\* "1/0(" and "1/0+("-like: a division by zero that is never evaluated
C7_Witness ==
    /\ Done
    /\ ret = Err("MismatchedParantheses")
    /\ Len(tokens) >= 3
    /\ tokens[2] = Number(Zero)
    /\ tokens[3] = Operation("/")

(***************************************************************************)
(* C8 as claimed: whenever conversion succeeds and some operator of the    *)
(* RPN sequence is preceded by too few operands, eval returns              *)
(* InvalidExpression.                                                      *)
(***************************************************************************)
\* size of the value stack after the first n tokens, all applied
Height(toks, n) ==
    Cardinality({m \in 1..n : toks[m].type = "Number"})
        - Cardinality({m \in 1..n : toks[m].type = "Operation"})

\* positions of the operators that find fewer than 2 values
Underflows(toks) ==
    {n \in 1..Len(toks) : toks[n].type = "Operation" /\ Height(toks, n - 1) < 2}

FirstUnderflow(toks) ==
    CHOOSE n \in Underflows(toks) : \A m \in Underflows(toks) : n <= m

C8_UnderflowIsInvalidExpression ==
    (Done /\ ConversionOk(expr) /\ Underflows(tokens) # {})
        => ret = Err("InvalidExpression")

(***************************************************************************)
(* C8 amended: an Operation token met with fewer than 2 values on the      *)
(* stack makes eval return InvalidExpression; an expression whose          *)
(* conversion succeeds and whose RPN has such an operator never returns a  *)
(* value: it returns InvalidExpression at the first such operator, unless  *)
(* a '/' token before it divides by zero, and then it returns              *)
(* ZeroDivision.                                                           *)
(***************************************************************************)
C8_Step ==
    ( /\ pc = "eval"
      /\ k < Len(tokens)
      /\ tokens[k + 1].type = "Operation"
      /\ Len(result) < 2 )
    => (pc' = "done" /\ ret' = Err("InvalidExpression") /\ result' = result)

C8_Outcome ==
    /\ (Done /\ ConversionOk(expr) /\ Underflows(tokens) # {}) =>
           \/ ret = Err("InvalidExpression") /\ k + 1 = FirstUnderflow(tokens)
           \/ /\ ret = Err("ZeroDivision")
              /\ k + 1 < FirstUnderflow(tokens)
              /\ tokens[k + 1] = Operation("/")
    /\ (Done /\ expr \in {<<"1", "+">>, <<"*", "2">>, <<"-", "(", "3", ")">>}) =>
           ret = Err("InvalidExpression")

C8_UnderflowAmended == [][C8_Step]_vars /\ []C8_Outcome

\* "1/0+"-like: ZeroDivision is returned before the operator that underflows
C8_Witness ==
    /\ Done
    /\ ConversionOk(expr)
    /\ Underflows(tokens) # {}
    /\ ret = Err("ZeroDivision")

(***************************************************************************)
(* C9: at a digit or '.', and after a '-' read as a sign, the scan takes   *)
(* the maximal run of digits and '.': two or more '.' in the run give      *)
(* InvalidDecimal, a run without a digit gives InvalidExpression, and      *)
(* otherwise exactly one Number token with the run's value is emitted and  *)
(* the cursor ends just past the run.                                      *)
(***************************************************************************)
\* the step on the run that starts at position p (1-based)
NumeralStep(p, negative) ==
    LET q == RunEnd(expr, p)
        v == RunValue(expr, p, q)
    IN  IF Count(expr, ".", p, q) >= 2
        THEN pc' = "done" /\ ret' = Err("InvalidDecimal") /\ tokens' = tokens
        ELSE IF \A r \in p..q : expr[r] = "."
        THEN pc' = "done" /\ ret' = Err("InvalidExpression") /\ tokens' = tokens
        ELSE /\ pc' = "scan"
             /\ ret' = ret
             /\ tokens' = Append(tokens, Number(IF negative THEN RatNeg(v) ELSE v))
             /\ operations' = operations
             /\ i' = q

C9_Step ==
    (pc = "scan" /\ i < Len(expr)) =>
        /\ NumeralChar(At(expr, i)) =>
               (RunStart(expr, i + 1) /\ NumeralStep(i + 1, FALSE))
        /\ SignCond(expr, i) => NumeralStep(i + 2, TRUE)

C9_NumeralRun == [][C9_Step]_vars

\* "1 1.."-like: a second '.' in a later numeral
C9_Witness ==
    /\ Done
    /\ ret = Err("InvalidDecimal")
    /\ tokens # <<>>
    /\ At(expr, i) = "."

(***************************************************************************)
(* C10: an expression with an unsupported character never evaluates to Ok; *)
(* eval returns UnsupportedToken with the cursor on the first such         *)
(* character, unless a malformed numeral before it already failed the      *)
(* scan.                                                                   *)
(***************************************************************************)
Unsupported(chars) == {p \in 1..Len(chars) : ~SupportedChar(chars[p])}

FirstUnsupported(chars) ==
    CHOOSE p \in Unsupported(chars) : \A q \in Unsupported(chars) : p <= q

\* a malformed numeral starts before position p
BadRunBefore(chars, p) ==
    \E r \in 1..(p - 1) :
        RunStart(chars, r) /\ BadRun(chars, r, RunEnd(chars, r))

C10_UnsupportedToken ==
    (Done /\ Unsupported(expr) # {}) =>
        /\ ret.kind = "Err"
        /\ result = <<>>
        /\ IF BadRunBefore(expr, FirstUnsupported(expr))
           THEN ret.err \in {"InvalidDecimal", "InvalidExpression"}
           ELSE ret = Err("UnsupportedToken") /\ i + 1 = FirstUnsupported(expr)

\* "1 $ 2"-like: tokens were emitted before the character was reached
C10_Witness ==
    /\ Done
    /\ ret = Err("UnsupportedToken")
    /\ tokens # <<>>
    /\ i + 1 < Len(expr)

(***************************************************************************)
(* C11: a call of eval on an instance that was evaluated before returns    *)
(* the outcome of the call before; the outcome is the function eval of the *)
(* expression string; every call starts from an empty token sequence, so   *)
(* that the tokens evaluated are those of the expression alone; the        *)
(* expression string never changes.                                        *)
(***************************************************************************)
C11_Step ==
    /\ expr' = expr
    /\ (pc # "done" /\ pc' = "done" /\ ret.kind # "none") => ret' = ret
    /\ (pc = "done" /\ pc' # "done") => (tokens' = <<>> /\ result' = <<>>)

C11_State ==
    /\ pc = "eval" => tokens = tokenizer(expr).tokens
    /\ Done => ret = eval(expr)

C11_RepeatedEval == [][C11_Step]_vars /\ []C11_State

\* a second call is scanning after a first call that failed part-way
C11_Witness ==
    /\ pc = "scan"
    /\ ret = Err("UnsupportedToken")
    /\ i > 0
    /\ tokens # <<>>

(***************************************************************************)
(* C12: eval terminates.  Every scan step returns an error or moves the    *)
(* cursor forward by at least one character (a numeral step included),     *)
(* every pop shrinks the operator stack and emits one token per operator   *)
(* popped, every step of the token loop returns or moves to the next       *)
(* token, and eval eventually returns.                                     *)
(***************************************************************************)
C12_Step ==
    /\ pc = "scan" => 
          \/ pc' = "done" /\ ret'.kind = "Err"
          \/ pc' = "drain" /\ i >= Len(expr)
          \/ /\ pc' = "scan"
             /\ i' > i
             /\ i' <= Len(expr)
             /\ Len(operations') <= Len(operations) + 1
             /\ Len(tokens') - Len(tokens) <= Len(operations) + 1
    /\ pc = "drain" =>
          \/ pc' = "eval" /\ operations = <<>>
          \/ Len(operations') < Len(operations)
    /\ pc = "eval" =>
          \/ pc' = "done"
          \/ pc' = "eval" /\ k' = k + 1 /\ k' <= Len(tokens) /\ tokens' = tokens
    /\ pc = "done" => pc' = "done"

C12_Terminates == [][C12_Step]_vars /\ <>Done

\* the call has returned after scanning a numeral, popping and evaluating
C12_Witness ==
    /\ Done
    /\ ret.kind = "Ok"
    /\ Len(tokens) >= 5
    /\ i = Len(expr)

(***************************************************************************)
(* C13: an expression made only of spaces and parentheses in which every   *)
(* '(' is closed (the empty expression and "()" included) is exactly an    *)
(* expression whose conversion succeeds with no token: the scan reaches    *)
(* the end, conversion leaves the token sequence and the operator stack    *)
(* empty, the token loop runs zero times and eval returns                  *)
(* InvalidExpression from the final check of the empty value stack.        *)
(***************************************************************************)
OnlySpacesAndParens(chars) ==
    \A p \in 1..Len(chars) : chars[p] \in {" ", "(", ")"}

C13_EmptyConversion ==
    /\ (pc = "eval" /\ tokens = <<>>) =>
          (OnlySpacesAndParens(expr) /\ ~UnclosedOpen(expr))
    /\ (OnlySpacesAndParens(expr) /\ ~UnclosedOpen(expr)) =>
          /\ tokens = <<>>
          /\ result = <<>>
          /\ k = 0
          /\ pc \in {"drain", "eval"} => operations = <<>>
          /\ Done =>
                /\ i = Len(expr)
                /\ operations = <<>>
                /\ ret = Err("InvalidExpression")

\* eval has returned on balanced parentheses with nothing in them
C13_Witness ==
    /\ Done
    /\ Len(expr) >= 2
    /\ OnlySpacesAndParens(expr)
    /\ ~UnmatchedClose(expr)
    /\ InStack("(", expr)
    /\ tokens = <<>>
    /\ ret = Err("InvalidExpression")

(***************************************************************************)
(* C14: the scan step of a binary operator c pops the longest run of       *)
(* operators on top of the operator stack whose precedence is at least     *)
(* that of c (+ and - have 1, * and / have 2), a run that ends at a '('    *)
(* or at the bottom of the stack, appends them to the tokens top first as  *)
(* Operation tokens and then pushes c; "10/2/5" is 1, "8-3-2" is 3 and     *)
(* "2+3*4" is 14.                                                          *)
(***************************************************************************)
Prec(c) == IF c \in {"*", "/"} THEN 2 ELSE 1

\* ops[m] is an operator that an incoming c pops
Pops(ops, m, c) == ops[m] \in Operators /\ Prec(ops[m]) >= Prec(c)

\* the number of operators an incoming c pops from ops
PopCount(ops, c) ==
    CHOOSE n \in 0..Len(ops) :
        /\ \A m \in (Len(ops) - n + 1)..Len(ops) : Pops(ops, m, c)
        /\ n < Len(ops) => ~Pops(ops, Len(ops) - n, c)

C14_Step ==
    (/\ pc = "scan"
     /\ i < Len(expr)
     /\ At(expr, i) \in Operators
     /\ ~SignCond(expr, i)) =>
        LET c == At(expr, i)
            n == PopCount(operations, c)
        IN  /\ pc' = "scan"
            /\ i' = i + 1
            /\ tokens' = tokens \o SubSeq(LIFO(operations), 1, n)
            /\ operations' =
                   Append(SubSeq(operations, 1, Len(operations) - n), c)
            /\ \A m \in 1..Len(tokens') : tokens'[m] # Operation("(")

C14_Examples ==
    Done =>
        /\ expr = <<"1", "0", "/", "2", "/", "5">> => ret = Ok(<<1, 1>>)
        /\ expr = <<"8", "-", "3", "-", "2">> => ret = Ok(<<3, 1>>)
        /\ expr = <<"2", "+", "3", "*", "4">> => ret = Ok(<<14, 1>>)
        /\ expr = <<"2", "-", "2", "-", "1">> => ret = Ok(<<-1, 1>>)
        /\ expr = <<"2", "/", "2", "*", "2">> => ret = Ok(<<2, 1>>)
        /\ expr = <<"1", "+", "(", "2", "*", "2", ")">> => ret = Ok(<<5, 1>>)

C14_PrecedencePop == [][C14_Step]_vars /\ []C14_Examples

\* "a o1 b o2": the second operator has popped the first and is on the stack
C14_Witness ==
    /\ pc = "scan"
    /\ i = 4
    /\ Len(tokens) = 3
    /\ tokens[3].type = "Operation"
    /\ Prec(tokens[3].op) >= Prec(At(expr, 3))
    /\ operations = <<At(expr, 3)>>

(***************************************************************************)
(* C15 as claimed: an expression with two binary operators that have no    *)
(* numeral between them (only spaces, the second not being a sign) never   *)
(* evaluates to a number: once the scan has got past the pair, conversion  *)
(* reports no error of its own and eval returns InvalidExpression.         *)
(***************************************************************************)
\* the operators at p < q have only spaces between them, q is not a sign
OperatorPair(chars, p, q) ==
    /\ chars[p] \in Operators
    /\ chars[q] \in Operators
    /\ \A r \in (p + 1)..(q - 1) : chars[r] = " "
    /\ ~SignCond(chars, q - 1)

ConsecutiveOperators(chars) ==
    \E p \in 1..Len(chars) : \E q \in (p + 1)..Len(chars) :
        OperatorPair(chars, p, q)

C15_ConsecutiveOperatorsRejected ==
    (Done /\ ConsecutiveOperators(expr)) => ret.kind # "Ok"

(***************************************************************************)
(* C16: in every state the operator stack holds only + - * / and '(' (a    *)
(* ')' is never pushed), and between two neighbours of the stack that are  *)
(* both operators (no '(' between them) the precedence does not decrease   *)
(* from bottom to top; the code in fact keeps it strictly increasing.      *)
(***************************************************************************)
NonDecreasing(ops) ==
    \A n \in 1..(Len(ops) - 1) :
        (ops[n] # "(" /\ ops[n + 1] # "(") => Prec(ops[n]) <= Prec(ops[n + 1])

StrictlyIncreasing(ops) ==
    \A n \in 1..(Len(ops) - 1) :
        (ops[n] # "(" /\ ops[n + 1] # "(") => Prec(ops[n]) < Prec(ops[n + 1])

C16_OperatorStackShape ==
    /\ \A n \in 1..Len(operations) : operations[n] \in Operators \cup {"("}
    /\ NonDecreasing(operations)
    /\ StrictlyIncreasing(operations)

\* "+*(-"-like: two segments, the lower one rising, during the scan
C16_Witness ==
    /\ pc = "scan"
    /\ Len(operations) = 4
    /\ operations[3] = "("
    /\ operations[4] \in Operators
    /\ Prec(operations[1]) < Prec(operations[2])

(***************************************************************************)
(* C17: in the token loop a Number token pushes its value, so the value    *)
(* stack grows by one, and an applied Operation token replaces the two top *)
(* values by one, so the stack shrinks by one and is not empty afterwards; *)
(* after k tokens processed without error the size of the stack is the     *)
(* number of Number tokens minus the number of Operation tokens among the  *)
(* first k.                                                                *)
(***************************************************************************)
C17_Step ==
    (pc = "eval" /\ k < Len(tokens) /\ pc' = "eval") =>
        /\ k' = k + 1
        /\ tokens[k + 1].type = "Number" =>
              result' = Append(result, tokens[k + 1].val)
        /\ tokens[k + 1].type = "Operation" =>
              /\ Len(result) >= 2
              /\ Len(result') = Len(result) - 1
              /\ Len(result') >= 1
              /\ Front(result') = SubSeq(result, 1, Len(result) - 2)

C17_Size == pc = "eval" => Len(result) = Height(tokens, k)

C17_ValueStackSize == [][C17_Step]_vars /\ []C17_Size

\* two values are left after the first of two operators is applied
C17_Witness ==
    /\ pc = "eval"
    /\ Len(tokens) = 5
    /\ k = 4
    /\ tokens[4].type = "Operation"
    /\ Len(result) = 2

(***************************************************************************)
(* C18: when the token loop ends without error on a value stack that is    *)
(* not empty, eval returns Ok with the value on top, however many values   *)
(* are below it: "1 2" gives 2 and "2(3)" gives 3, the value pushed last.  *)
(***************************************************************************)
C18_Step ==
    (pc = "eval" /\ k >= Len(tokens) /\ result # <<>>) =>
        /\ pc' = "done"
        /\ ret' = Ok(result[Len(result)])
        /\ result' = SubSeq(result, 1, Len(result) - 1)

C18_Examples ==
    Done =>
        /\ expr = <<"1", " ", "2">> => ret = Ok(<<2, 1>>)
        /\ expr = <<"2", "(", "3", ")">> => ret = Ok(<<3, 1>>)
        /\ (ret.kind = "Ok" /\ tokens[Len(tokens)].type = "Number") =>
              ret.val = tokens[Len(tokens)].val

C18_TopReturned == [][C18_Step]_vars /\ []C18_Examples

\* eval has returned a value and left another one on the value stack
C18_Witness ==
    /\ Done
    /\ ret.kind = "Ok"
    /\ result # <<>>
    /\ Len(tokens) = 2
    /\ ret.val = tokens[2].val
    /\ ret.val # tokens[1].val

(***************************************************************************)
(* C19 as claimed: for a parenthesis-free expression whose operators have  *)
(* strictly increasing precedence from left to right, the token sequence   *)
(* left by a successful conversion is the sequence of operands and         *)
(* operators in the order in which the expression has them (checked on the *)
(* expressions in which operands and operators alternate).                 *)
(***************************************************************************)
ParenFree(chars) == \A p \in 1..Len(chars) : chars[p] \notin {"(", ")"}

\* the operands and operators of a lexically clean, parenthesis-free
\* expression from position p on, in the order of the text
RECURSIVE InfixFrom(_, _)
InfixFrom(chars, p) ==
    IF p > Len(chars) THEN <<>>
    ELSE IF chars[p] = " " THEN InfixFrom(chars, p + 1)
    ELSE IF SignCond(chars, p - 1)
    THEN <<Number(RatNeg(RunValue(chars, p + 1, RunEnd(chars, p + 1))))>>
             \o InfixFrom(chars, RunEnd(chars, p + 1) + 1)
    ELSE IF chars[p] \in Operators
    THEN <<Operation(chars[p])>> \o InfixFrom(chars, p + 1)
    ELSE <<Number(RunValue(chars, p, RunEnd(chars, p)))>>
             \o InfixFrom(chars, RunEnd(chars, p) + 1)

InfixTokens(chars) == InfixFrom(chars, 1)

IsNumber(t) == t.type = "Number"

IsOperation(t) == t.type = "Operation"

Reverse(s) == [n \in 1..Len(s) |-> s[Len(s) + 1 - n]]

\* the operators of the expression have strictly increasing precedence
IncreasingOperators(chars) ==
    LET ops == SelectSeq(InfixTokens(chars), IsOperation)
    IN  \A n \in 1..(Len(ops) - 1) : Prec(ops[n].op) < Prec(ops[n + 1].op)

RoundTripCase ==
    /\ pc = "eval"
    /\ ParenFree(expr)
    /\ LexicallyClean(expr)
    /\ IncreasingOperators(expr)

\* operands and operators alternate, from an operand to an operand
Alternating(toks) ==
    /\ Len(toks) % 2 = 1
    /\ \A n \in 1..Len(toks) :
          IF n % 2 = 1 THEN IsNumber(toks[n]) ELSE IsOperation(toks[n])

C19_RpnIsInfixOrder ==
    (RoundTripCase /\ Alternating(InfixTokens(expr))) =>
        tokens = InfixTokens(expr)

(***************************************************************************)
(* C19 amended: for such an expression the token sequence is the operands  *)
(* in the order of the text followed by the operators in the reverse of    *)
(* their order in the text ("2+3*4" gives 2 3 4 * +).                      *)
(***************************************************************************)
C19_OperandsThenOperatorsReversed ==
    RoundTripCase =>
        tokens = SelectSeq(InfixTokens(expr), IsNumber)
                     \o Reverse(SelectSeq(InfixTokens(expr), IsOperation))

\* "a+b*c"-like: three operands, then the higher operator, then the lower
C19_Witness ==
    /\ RoundTripCase
    /\ Len(tokens) = 5
    /\ IsNumber(tokens[3])
    /\ IsOperation(tokens[4])
    /\ IsOperation(tokens[5])
    /\ Prec(tokens[4].op) > Prec(tokens[5].op)
    /\ InfixTokens(expr)[2] = tokens[5]

(***************************************************************************)
(* C20: eval never panics.  Every Operation token carries + - * or /, so   *)
(* the evaluator's match never takes its unreachable arm; eval returns a   *)
(* number or one of the five errors; a '-' at index 0 is scanned without   *)
(* the character before it (a sign when a digit follows, an operator       *)
(* otherwise); values are popped from the value stack only when it holds   *)
(* at least two of them, or one at the end; the operator stack shrinks     *)
(* only when it is not empty.                                              *)
(***************************************************************************)
C20_State ==
    /\ \A n \in 1..Len(tokens) :
          IsOperation(tokens[n]) => tokens[n].op \in Operators
    /\ ret.kind \in {"none", "Ok", "Err"}
    /\ ret.kind = "Err" => ret.err \in CalculatorError
    /\ (pc = "eval" /\ k < Len(tokens) /\ IsOperation(tokens[k + 1])
            /\ Len(result) >= 2) =>
          apply_op(tokens[k + 1].op, result[Len(result) - 1],
                   result[Len(result)]).err \in {NoErr, "ZeroDivision"}

C20_Step ==
    /\ (pc = "scan" /\ i = 0 /\ i < Len(expr) /\ At(expr, 0) = "-") =>
          /\ pc' \in {"scan", "done"}
          /\ pc' = "done" => ret'.err = "InvalidDecimal"
          /\ pc' = "scan" =>
                IF Len(expr) >= 2 /\ is_ascii_digit(expr[2])
                THEN operations' = <<>> /\ Len(tokens') = Len(tokens) + 1 /\ i' >= 2
                ELSE operations' = <<"-">> /\ tokens' = tokens /\ i' = 1
    /\ (pc = "eval" /\ k < Len(tokens) /\ Len(result') < Len(result)) =>
          Len(result) >= 2
    /\ (pc = "eval" /\ k >= Len(tokens) /\ Len(result') < Len(result)) =>
          Len(result) >= 1
    /\ Len(operations') < Len(operations) => operations # <<>>

C20_NeverPanics == [][C20_Step]_vars /\ []C20_State

\* "-(3)"-like: a '-' at index 0, a closed parenthesis, an underflow reported
C20_Witness ==
    /\ Done
    /\ expr # <<>>
    /\ expr[1] = "-"
    /\ InStack("(", expr)
    /\ InStack(")", expr)
    /\ Len(tokens) = 2
    /\ tokens[2] = Operation("-")
    /\ ret = Err("InvalidExpression")

====
